---- MODULE Spec2Model ----
(***************************************************************************)
(* Model of the dataset-assembly pipeline of merge_datasets.py:            *)
(* get_historical_weather, merge_datasets and the __main__ block.          *)
(* Tables (pandas DataFrames) are sequences of records, one record per     *)
(* row, in row order.                                                      *)
(***************************************************************************)
EXTENDS Integers, Sequences, FiniteSets, TLC

VARIABLES
    pc,                 \* position of the program
    files,              \* which of the three input files exist
    apiKey,             \* value of OPENWEATHERMAP_API_KEY
    deliveries_df,      \* contents of deliveries.csv
    matches_df,         \* contents of matches.csv
    geo_df,             \* contents of the stadium workbook
    inning_scores,      \* table built at lines 121-122
    merged_df,          \* table built at lines 124-146
    df,                 \* table built at line 150
    unique_matches,     \* table built at lines 156-160
    todo,               \* rows of unique_matches the loop of line 166 has not visited
    match_weather_list, \* list built by the loop of lines 166-169
    weather_calls,      \* the calls of get_historical_weather made so far
    netCalls,           \* number of requests.get calls made so far
    final_df,           \* table built at lines 175-184 (before imputation)
    returned,           \* what merge_datasets returned
    output_csv,         \* contents of final_cricket_dataset.csv
    lookup,             \* a single call of get_historical_weather and its outcome
    venue_col           \* a venue column, raw and after one and two normalizations

vars == <<pc, files, apiKey, deliveries_df, matches_df, geo_df, inning_scores,
          merged_df, df, unique_matches, todo, match_weather_list, weather_calls,
          netCalls, final_df, returned, output_csv, lookup, venue_col>>

----------------------------------------------------------------------------
(* Bounds of the model *)

MaxDeliveries == 3

MaxMatches == 2

MaxVenueCol == 2

----------------------------------------------------------------------------
(* Generic helpers *)

\* All sequences over S of length at most n.
BoundedSeq(S, n) == UNION {[1..k -> S] : k \in 0..n}

Range(s) == {s[i] : i \in 1..Len(s)}

RECURSIVE SumSeq(_)
SumSeq(s) == IF s = <<>> THEN 0 ELSE Head(s) + SumSeq(Tail(s))

RECURSIVE Gcd(_, _)
Gcd(a, b) == IF b = 0 THEN a ELSE Gcd(b, a % b)

\* Value of a table variable that no step has set yet.
NoTable == <<>>

----------------------------------------------------------------------------
(* Numeric cells.  A float cell is NaN or a rational num/den in lowest      *)
(* terms (31.5 is 63/2).                                                    *)

NaN == [nan |-> TRUE, num |-> 0, den |-> 1]

Num(n, d) == [nan |-> FALSE, num |-> n \div Gcd(n, d), den |-> d \div Gcd(n, d)]

IsNaN(c) == c.nan

AddCell(a, b) == Num(a.num * b.den + b.num * a.den, a.den * b.den)

----------------------------------------------------------------------------
(* Step 1: inning scores, merge_datasets lines 119-122 *)

MatchIds == 1..2

Innings == 1..2

Runs == {0, 1, 6}

DeliveryRows == [match_id : MatchIds, inning : Innings, total_runs : Runs]

KeyLess(a, b) == a[1] < b[1] \/ (a[1] = b[1] /\ a[2] < b[2])

\* The keys of K in ascending order (groupby sorts the group keys).
RECURSIVE SortedKeys(_)
SortedKeys(K) ==
    IF K = {} THEN <<>>
    ELSE LET m == CHOOSE k \in K : \A o \in K \ {k} : KeyLess(k, o)
         IN  <<m>> \o SortedKeys(K \ {m})

\* total_runs of the rows of group k, in table order.
RECURSIVE GroupRuns(_, _)
GroupRuns(t, k) ==
    IF t = <<>> THEN <<>>
    ELSE IF <<Head(t).match_id, Head(t).inning>> = k
         THEN <<Head(t).total_runs>> \o GroupRuns(Tail(t), k)
         ELSE GroupRuns(Tail(t), k)

\* A slip: the rows of a group are deduplicated before they are summed.
GroupTotalDedup(t, k) ==
    LET vals == {r.total_runs : r \in {x \in Range(t) : <<x.match_id, x.inning>> = k}}
        RECURSIVE SumSet(_)
        SumSet(S) == IF S = {} THEN 0
                     ELSE LET v == CHOOSE x \in S : TRUE IN v + SumSet(S \ {v})
    IN  SumSet(vals)

\* groupby(['match_id','inning'])['total_runs'].sum() for one group.
GroupTotal(t, k) == SumSeq(GroupRuns(t, k))

\* groupby(...).sum().reset_index() and the rename to inning_score.
InningScores(t) ==
    LET keys == SortedKeys({<<r.match_id, r.inning>> : r \in Range(t)})
    IN  [i \in 1..Len(keys) |->
            [match_id |-> keys[i][1], inning |-> keys[i][2],
             inning_score |-> GroupTotal(t, keys[i])]]

----------------------------------------------------------------------------
(* Step 3: venue names, merge_datasets lines 143-146 *)

\* The dict literal venue_mapping as its set of <<key, value>> items.
VenueTable ==
    { <<"Rajiv Gandhi International Stadium, Uppal", "Rajiv Gandhi International Stadium">>,
      <<"M. Chinnaswamy Stadium", "M Chinnaswamy Stadium">>,
      <<"Holkar Cricket Stadium", "Holkar Cricket Stadium">>,
      <<"Maharashtra Cricket Association Stadium", "Maharashtra Cricket Association Stadium">>,
      <<"Wankhede Stadium", "Wankhede Stadium">>,
      <<"Feroz Shah Kotla Ground", "Feroz Shah Kotla Ground">>,
      <<"Eden Gardens", "Eden Gardens">>,
      <<"Punjab Cricket Association Stadium, Mohali", "IS Bindra Stadium">>,
      <<"Feroz Shah Kotla", "Feroz Shah Kotla Ground">>,
      <<"M. A. Chidambaram Stadium", "M. A. Chidambaram Stadium">>,
      <<"Sardar Patel Stadium, Motera", "Sardar Patel Stadium, Motera">>,
      <<"Himachal Pradesh Cricket Association Stadium", "Himachal Pradesh Cricket Association Stadium">>,
      <<"Subrata Roy Sahara Stadium", "Maharashtra Cricket Association Stadium">>,
      <<"JSCA International Stadium Complex", "JSCA International Stadium Complex">>,
      <<"Barabati Stadium", "Barabati Stadium">>,
      <<"Saurashtra Cricket Association Stadium", "Saurashtra Cricket Association Stadium">>,
      <<"Shaheed Veer Narayan Singh International Stadium", "Shaheed Veer Narayan Singh International Stadium">>,
      <<"Dr. Y.S. Rajasekhara Reddy ACA-VDCA Cricket Stadium", "Dr. Y.S. Rajasekhara Reddy ACA-VDCA Cricket Stadium">>,
      <<"ACA-VDCA Stadium", "Dr. Y.S. Rajasekhara Reddy ACA-VDCA Cricket Stadium">>,
      <<"M. Chinnaswamy Stadium, Bengaluru", "M Chinnaswamy Stadium">>,
      <<"Wankhede Stadium, Mumbai", "Wankhede Stadium">>,
      <<"Sheikh Zayed Stadium", "Sheikh Zayed Cricket Stadium">> }

\* The dict built from a set of items.
DictOf(items) ==
    [k \in {it[1] : it \in items} |-> (CHOOSE it \in items : it[1] = k)[2]]

\* A slip: one entry is also entered the wrong way round (canonical -> variant).
venue_mapping_reversed_entry ==
    DictOf(VenueTable \cup {<<"M Chinnaswamy Stadium", "M. Chinnaswamy Stadium">>})

venue_mapping == DictOf(VenueTable)

VenueKeys == {it[1] : it \in VenueTable}

VenueValues == {it[2] : it \in VenueTable}

\* Venue names that are neither a key nor a value of the table.
UnmappedVenues == {"Newlands", "wankhede stadium", "Eden Gardens, Kolkata"}

VenueStrings == VenueKeys \cup VenueValues \cup UnmappedVenues

\* Series.map(venue_mapping).fillna(original) on one element.
NormalizeVenue(v) ==
    LET m == venue_mapping
    IN  IF v \in DOMAIN m THEN m[v] ELSE v

NormalizeColumn(col) == [i \in 1..Len(col) |-> NormalizeVenue(col[i])]

----------------------------------------------------------------------------
(* get_historical_weather, lines 25-93 *)

PLACEHOLDER_KEY == "YOUR_OPENWEATHERMAP_API_KEY"

ApiKeys == {PLACEHOLDER_KEY, "a-configured-key"}

WeatherRecord(t, h, w, d) ==
    [match_temp |-> t, match_humidity |-> h, match_wind_speed |-> w, match_dew_point |-> d]

\* The dummy data of lines 48-53: 31.5, 45, 15, 12.5.
DummyWeather == WeatherRecord(Num(63, 2), Num(45, 1), Num(15, 1), Num(25, 2))

\* The record of lines 80-85 and 88-93.
NanWeather == WeatherRecord(NaN, NaN, NaN, NaN)

\* What the network call of lines 64-66 can produce: an exception raised by
\* requests.get, raise_for_status or json(), or a parsed JSON body.  A body is
\* described by the type of the document, the type of its 'hourly' entry and
\* the type of the first element of 'hourly'.
NetStatuses == {"timeout", "connection_error", "http_error", "bad_json", "ok"}

DataTypes == {"dict", "list", "null"}

HourlyTypes == {"absent", "list", "dict", "null", "str", "num"}

FirstTypes == {"absent", "dict_full", "dict_partial", "num", "null"}

NetOutcomes ==
    [status : NetStatuses \ {"ok"}, data : {"null"}, hourly : {"absent"}, first : {"absent"}]
    \cup [status : {"ok"}, data : DataTypes \ {"dict"}, hourly : {"absent"}, first : {"absent"}]
    \cup [status : {"ok"}, data : {"dict"}, hourly : HourlyTypes \ {"list"}, first : {"absent"}]
    \cup [status : {"ok"}, data : {"dict"}, hourly : {"list"}, first : FirstTypes]

Return(v) == [kind |-> "return", exc |-> "", value |-> v]

Raise(e) == [kind |-> "raise", exc |-> e, value |-> NanWeather]

\* Lines 64-66: the exception the three calls raise, or "" when data is bound.
\* requests' Timeout, ConnectionError, HTTPError and JSONDecodeError are all
\* RequestException.
RequestError(net) ==
    IF net.status = "ok" THEN "" ELSE "RequestException"

\* Line 69, data['hourly'][0]: the exception it raises, or "" when
\* hourly_data is bound.
SubscriptError(net) ==
    CASE net.data = "list" -> "TypeError"        \* list indices must be integers
      [] net.data = "null" -> "TypeError"        \* None is not subscriptable
      [] net.hourly = "absent" -> "KeyError"     \* data['hourly']
      [] net.hourly = "dict" -> "KeyError"       \* {...}[0]
      [] net.hourly = "null" -> "TypeError"
      [] net.hourly = "num" -> "TypeError"
      [] net.hourly = "str" -> ""                \* 'abc'[0] is 'a'
      [] net.first = "absent" -> "IndexError"    \* [][0]
      [] OTHER -> ""

\* Lines 71-76, hourly_data.get(...): only a dict has .get.
GetError(net) ==
    IF net.hourly = "list" /\ net.first \in {"dict_full", "dict_partial"}
    THEN "" ELSE "AttributeError"

\* The record of lines 71-76 for a dict element; a key the element lacks
\* gives None, a missing value of the column.
HourlyRecord(net) ==
    IF net.first = "dict_full"
    THEN WeatherRecord(Num(57, 2), Num(70, 1), Num(4, 1), Num(22, 1))
    ELSE WeatherRecord(Num(57, 2), NaN, Num(4, 1), NaN)

\* The except clauses of lines 77 and 86.
Handle(e) ==
    IF e \in {"RequestException", "IndexError", "KeyError"}
    THEN Return(NanWeather) ELSE Raise(e)

\* Lines 55-93: the try block, reached when the key is configured.
NetworkLookup(net) ==
    IF RequestError(net) # "" THEN Handle(RequestError(net))
    ELSE IF SubscriptError(net) # "" THEN Handle(SubscriptError(net))
    ELSE IF GetError(net) # "" THEN Handle(GetError(net))
    ELSE Return(HourlyRecord(net))

\* A slip: the placeholder test of line 46 is missing.
GetHistoricalWeatherNoGuard(key, lat, lon, dt, net) ==
    [outcome |-> NetworkLookup(net), requests |-> 1]

\* get_historical_weather(lat, lon, dt) under key and network outcome net:
\* what the call returns or raises, and how many requests it sent.
GetHistoricalWeather(key, lat, lon, dt, net) ==
    IF key = PLACEHOLDER_KEY
    THEN [outcome |-> Return(DummyWeather), requests |-> 0]
    ELSE [outcome |-> NetworkLookup(net), requests |-> 1]


----------------------------------------------------------------------------
(* Dates: pd.to_datetime(format='mixed', dayfirst=True), line 129.  A date  *)
(* string is its format and its three numeric fields in written order; a   *)
(* parsed date is the number of days since 1970-01-01.                     *)

IsLeap(y) == (y % 4 = 0 /\ y % 100 # 0) \/ y % 400 = 0

LeapsUpTo(y) == (y \div 4) - (y \div 100) + (y \div 400)

DaysBeforeYear(y) == 365 * (y - 1970) + LeapsUpTo(y - 1) - LeapsUpTo(1969)

DaysBeforeMonth(y, m) ==
    <<0, 31, 59, 90, 120, 151, 181, 212, 243, 273, 304, 334>>[m]
    + (IF m > 2 /\ IsLeap(y) THEN 1 ELSE 0)

DaysFromCivil(y, m, d) == DaysBeforeYear(y) + DaysBeforeMonth(y, m) + (d - 1)

\* "yyyy-mm-dd" is read as ISO 8601; "dd/mm/yyyy" is read day first.
ParseDate(s) ==
    IF s.fmt = "iso"
    THEN [year |-> s.f1, days |-> DaysFromCivil(s.f1, s.f2, s.f3)]
    ELSE [year |-> s.f3, days |-> DaysFromCivil(s.f3, s.f2, s.f1)]

Iso(y, m, d) == [fmt |-> "iso", f1 |-> y, f2 |-> m, f3 |-> d]

Dmy(d, m, y) == [fmt |-> "dmy", f1 |-> d, f2 |-> m, f3 |-> y]

\* Line 160: (date + 18 hours) as seconds since the epoch.
UnixTime(days) == days * 86400 + 18 * 3600

----------------------------------------------------------------------------
(* Steps 1-2: merge with matches and the pitch features, lines 124-139 *)

\* pd.merge(matches_df, inning_scores, left_on='id', right_on='match_id',
\* how='inner'): the rows of the right table that match one left row.
RECURSIVE ScoresOf(_, _)
ScoresOf(m, scores) ==
    IF scores = <<>> THEN <<>>
    ELSE (IF Head(scores).match_id = m.id
          THEN <<[id |-> m.id, match_id |-> Head(scores).match_id,
                  inning |-> Head(scores).inning,
                  inning_score |-> Head(scores).inning_score,
                  date |-> m.date, season |-> m.season, venue |-> m.venue]>>
          ELSE <<>>) \o ScoresOf(m, Tail(scores))

RECURSIVE InnerMerge(_, _)
InnerMerge(matches, scores) ==
    IF matches = <<>> THEN <<>>
    ELSE ScoresOf(Head(matches), scores) \o InnerMerge(Tail(matches), scores)

\* drop_duplicates(subset=['id','inning'], keep='first'), line 125.
RECURSIVE DropDuplicatePairs(_, _)
DropDuplicatePairs(t, seen) ==
    IF t = <<>> THEN <<>>
    ELSE IF <<Head(t).id, Head(t).inning>> \in seen
         THEN DropDuplicatePairs(Tail(t), seen)
         ELSE <<Head(t)>>
              \o DropDuplicatePairs(Tail(t), seen \cup {<<Head(t).id, Head(t).inning>>})

\* Lines 129-130: the date column parsed, and the Year column.
WithParsedDates(t) ==
    [i \in 1..Len(t) |->
        [id |-> t[i].id, match_id |-> t[i].match_id, inning |-> t[i].inning,
         inning_score |-> t[i].inning_score, season |-> t[i].season,
         venue |-> t[i].venue,
         date |-> ParseDate(t[i].date).days, Year |-> ParseDate(t[i].date).year]]

\* Lines 124-130.
MergeMatches(matches, scores) ==
    WithParsedDates(DropDuplicatePairs(InnerMerge(matches, scores), {}))

\* The venue names of the match tables in ascending string order.
VenueOrder == <<"Eden Gardens", "Feroz Shah Kotla", "Feroz Shah Kotla Ground">>

VenueRank(v) == CHOOSE i \in 1..Len(VenueOrder) : VenueOrder[i] = v

\* a sorts no later than b under sort_values(['venue','date']).
SortKeyLE(a, b) ==
    \/ VenueRank(a.venue) < VenueRank(b.venue)
    \/ (a.venue = b.venue /\ a.date <= b.date)

\* r placed behind every row that sorts no later than it (the sort is stable).
RECURSIVE InsertSorted(_, _)
InsertSorted(s, r) ==
    IF s = <<>> THEN <<r>>
    ELSE IF SortKeyLE(Head(s), r) THEN <<Head(s)>> \o InsertSorted(Tail(s), r)
         ELSE <<r>> \o s

\* sort_values(['venue','date']), line 135.
RECURSIVE SortValues(_)
SortValues(t) ==
    IF t = <<>> THEN <<>>
    ELSE InsertSorted(SortValues(SubSeq(t, 1, Len(t) - 1)), t[Len(t)])

\* A slip: shift(1) on the whole column, without the groupby.
LastMatchDateUngrouped(t, i) ==
    IF i = 1 THEN {} ELSE {t[i - 1].date}

\* groupby('venue')['date'].shift(1), line 136: the date of the previous row
\* of the same venue, or nothing (NaT) for the first row of a venue.
LastMatchDate(t, i) ==
    LET before == {j \in 1..(i - 1) : t[j].venue = t[i].venue}
    IN  IF before = {} THEN {}
        ELSE {t[CHOOSE j \in before : \A k \in before : k <= j].date}

\* Lines 137-138: the difference in days, 365 where there is none.
DaysSinceLastMatch(t, i) ==
    LET last == LastMatchDate(t, i)
    IN  IF last = {} THEN 365
        ELSE t[i].date - (CHOOSE d \in last : TRUE)

\* groupby(['season','venue']).cumcount() + 1, line 139.
MatchesThisSeason(t, i) ==
    Cardinality({j \in 1..(i - 1) :
                    t[j].season = t[i].season /\ t[j].venue = t[i].venue}) + 1

\* Lines 135-139.
EngineerFeatures(t) ==
    LET s == SortValues(t)
    IN  [i \in 1..Len(s) |->
            [id |-> s[i].id, match_id |-> s[i].match_id, inning |-> s[i].inning,
             inning_score |-> s[i].inning_score, season |-> s[i].season,
             venue |-> s[i].venue, date |-> s[i].date, Year |-> s[i].Year,
             Days_Since_Last_Match |-> DaysSinceLastMatch(s, i),
             Matches_This_Season |-> MatchesThisSeason(s, i)]]


----------------------------------------------------------------------------
(* Steps 3-4: geo data and weather, lines 143-178 *)

\* Line 146 on the whole table.
StandardizeVenues(t) ==
    [i \in 1..Len(t) |-> [t[i] EXCEPT !.venue = NormalizeVenue(t[i].venue)]]

\* The rows of geo that carry the keys (venue, Year) of row r, in table order.
GeoMatches(r, geo) ==
    SelectSeq(geo, LAMBDA g : g.venue = r.venue /\ g.Year = r.Year)

\* pd.merge(merged_df, geo_df[['venue','Year','Latitude','Longitude']],
\* on=['venue','Year'], how='left'), line 150.
RECURSIVE LeftMergeGeo(_, _)
LeftMergeGeo(t, geo) ==
    IF t = <<>> THEN <<>>
    ELSE LET r == Head(t)
             g == GeoMatches(r, geo)
         IN  (IF g = <<>>
              THEN <<r @@ [Latitude |-> NaN, Longitude |-> NaN]>>
              ELSE [k \in 1..Len(g) |->
                       r @@ [Latitude |-> g[k].Latitude, Longitude |-> g[k].Longitude]])
             \o LeftMergeGeo(Tail(t), geo)

\* df[['id','date','Latitude','Longitude']].drop_duplicates(subset=['id'])
\* and the dt column, lines 156-160.
RECURSIVE UniqueMatches(_, _)
UniqueMatches(t, seen) ==
    IF t = <<>> THEN <<>>
    ELSE IF Head(t).id \in seen THEN UniqueMatches(Tail(t), seen)
         ELSE <<[id |-> Head(t).id, date |-> Head(t).date,
                 Latitude |-> Head(t).Latitude, Longitude |-> Head(t).Longitude,
                 dt |-> UnixTime(Head(t).date)]>>
              \o UniqueMatches(Tail(t), seen \cup {Head(t).id})

CallRecord(row, res) ==
    [id |-> row.id, lat |-> row.Latitude, lon |-> row.Longitude, dt |-> row.dt,
     outcome |-> res.outcome]

\* A different policy: a row without coordinates is not looked up and gets
\* the all-null record.
WeatherForSkipNull(key, row, net) ==
    IF IsNaN(row.Latitude) \/ IsNaN(row.Longitude)
    THEN [calls |-> <<>>, outcome |-> Return(NanWeather), requests |-> 0]
    ELSE LET res == GetHistoricalWeather(key, row.Latitude, row.Longitude, row.dt, net)
         IN  [calls |-> <<CallRecord(row, res)>>, outcome |-> res.outcome,
              requests |-> res.requests]

\* Line 167: one iteration's call, for every row of unique_matches.
WeatherFor(key, row, net) ==
    LET res == GetHistoricalWeather(key, row.Latitude, row.Longitude, row.dt, net)
    IN  [calls |-> <<CallRecord(row, res)>>, outcome |-> res.outcome,
         requests |-> res.requests]

\* The columns of row r other than cols.
DropColumns(r, cols) == [c \in (DOMAIN r) \ cols |-> r[c]]

\* pd.merge(df.drop(columns=['Latitude','Longitude']), match_weather_df,
\* on='id', how='left'), line 175.
RECURSIVE LeftMergeWeather(_, _)
LeftMergeWeather(t, weather) ==
    IF t = <<>> THEN <<>>
    ELSE LET r == DropColumns(Head(t), {"Latitude", "Longitude"})
             w == SelectSeq(weather, LAMBDA x : x.id = r.id)
         IN  (IF w = <<>>
              THEN <<r @@ NanWeather>>
              ELSE [k \in 1..Len(w) |-> r @@ DropColumns(w[k], {"id"})])
             \o LeftMergeWeather(Tail(t), weather)

\* pd.merge(final_df, geo_df.drop(columns=['Latitude','Longitude']),
\* on=['venue','Year'], how='left'), line 178.  "" is a missing string.
RECURSIVE RemergeGeo(_, _)
RemergeGeo(t, geo) ==
    IF t = <<>> THEN <<>>
    ELSE LET r == Head(t)
             g == GeoMatches(r, geo)
         IN  (IF g = <<>>
              THEN <<r @@ [Country |-> ""]>>
              ELSE [k \in 1..Len(g) |-> r @@ [Country |-> g[k].Country]])
             \o RemergeGeo(Tail(t), geo)

----------------------------------------------------------------------------
(* Step 5: final cleaning, lines 183-188 *)

\* The columns select_dtypes(include=np.number) finds in the final table.
WeatherColumns == {"match_temp", "match_humidity", "match_wind_speed", "match_dew_point"}

NumericColumns ==
    {"season", "inning", "inning_score", "Year", "Days_Since_Last_Match",
     "Matches_This_Season"} \cup WeatherColumns

\* The value of numeric column c in row r as a float cell.
CellOf(r, c) == IF c \in WeatherColumns THEN r[c] ELSE Num(r[c], 1)

RECURSIVE SumCells(_, _, _)
SumCells(t, c, i) ==
    IF i = 0 THEN Num(0, 1)
    ELSE IF IsNaN(CellOf(t[i], c)) THEN SumCells(t, c, i - 1)
         ELSE AddCell(CellOf(t[i], c), SumCells(t, c, i - 1))

\* DataFrame.mean() of one column: NaN is skipped, and the mean of a column
\* without any value is NaN.
ColumnMean(t, c) ==
    LET n == Cardinality({i \in 1..Len(t) : ~IsNaN(CellOf(t[i], c))})
        sum == SumCells(t, c, Len(t))
    IN  IF n = 0 THEN NaN ELSE Num(sum.num, sum.den * n)

\* Line 188: fillna(mean) on the numeric columns.
FillNumeric(t) ==
    [i \in 1..Len(t) |->
        [c \in DOMAIN t[i] |->
            IF c \in NumericColumns
            THEN (IF IsNaN(CellOf(t[i], c)) THEN ColumnMean(t, c) ELSE CellOf(t[i], c))
            ELSE t[i][c]]]

\* Line 183 for the modelled columns.
DropIdentifiers(t) == [i \in 1..Len(t) |-> DropColumns(t[i], {"id", "match_id"})]

\* Lines 183-194: the table merge_datasets returns.
FinalClean(t) == FillNumeric(DropIdentifiers(t))

\* Lines 109-117: whether the three reads succeed.  A slip would be to leave
\* one read outside the try block's reach.
LoadSucceedsGeoUnchecked(f) == f.deliveries /\ f.matches

LoadSucceeds(f) == f.deliveries /\ f.matches /\ f.geo

NoneReturned == [none |-> TRUE, table |-> <<>>]

TableReturned(t) == [none |-> FALSE, table |-> t]

NoFile == [written |-> FALSE, table |-> <<>>]

NoLookup == [lat |-> NaN, lon |-> NaN, dt |-> 0, net |-> [status |-> "timeout", data |-> "null", hourly |-> "absent", first |-> "absent"],
             done |-> FALSE, outcome |-> Return(NanWeather), requests |-> 0]

NoVenueCol == [raw |-> <<>>, once |-> <<>>, twice |-> <<>>]


----------------------------------------------------------------------------
(* Inputs *)

\* The rows of t whose index is in S, in table order.
RECURSIVE Pick(_, _, _)
Pick(t, S, i) ==
    IF i > Len(t) THEN <<>>
    ELSE (IF i \in S THEN <<t[i]>> ELSE <<>>) \o Pick(t, S, i + 1)

SubTables(t) == {Pick(t, S, 1) : S \in SUBSET (1..Len(t))}

MatchVenues == {"Eden Gardens", "Feroz Shah Kotla"}

Seasons == {2019, 2020}

MatchDates == {Iso(2020, 1, 1), Dmy(11, 1, 2020), Dmy(31, 12, 2019)}

\* Rows of matches.csv: the columns the pipeline reads.
MatchRows == [id : MatchIds, date : MatchDates, season : Seasons, venue : MatchVenues]

\* The match rows of the end-to-end runs.
PipelineMatchRows ==
    [id : MatchIds, date : {Dmy(11, 1, 2020), Dmy(31, 12, 2019)}, season : {2020},
     venue : MatchVenues]

\* Ball-by-ball rows of the feature and end-to-end runs: match 1 with two
\* innings, match 2 with one.
BallByBall ==
    << [match_id |-> 1, inning |-> 1, total_runs |-> 6],
       [match_id |-> 1, inning |-> 2, total_runs |-> 1],
       [match_id |-> 2, inning |-> 1, total_runs |-> 6] >>

\* Rows of the stadium workbook after the rename of line 147.  The first two
\* rows carry the same (venue, Year).
GeoReference ==
    << [venue |-> "Feroz Shah Kotla Ground", Year |-> 2020,
        Latitude |-> Num(143, 5), Longitude |-> Num(386, 5), Country |-> "India"],
       [venue |-> "Feroz Shah Kotla Ground", Year |-> 2020,
        Latitude |-> Num(143, 5), Longitude |-> Num(386, 5), Country |-> "IND"],
       [venue |-> "Eden Gardens", Year |-> 2019,
        Latitude |-> Num(113, 5), Longitude |-> Num(883, 10), Country |-> "India"] >>

FileStates == [deliveries : BOOLEAN, matches : BOOLEAN, geo : BOOLEAN]

AllFiles == [deliveries |-> TRUE, matches |-> TRUE, geo |-> TRUE]

Coordinates == {NaN, Num(143, 5), Num(-339, 10)}

Timestamps == {UnixTime(ParseDate(d).days) : d \in MatchDates}

----------------------------------------------------------------------------
(* Initial states *)

\* What no step has computed yet.
Untouched ==
    /\ inning_scores = NoTable
    /\ merged_df = NoTable
    /\ df = NoTable
    /\ unique_matches = NoTable
    /\ todo = NoTable
    /\ match_weather_list = NoTable
    /\ weather_calls = <<>>
    /\ netCalls = 0
    /\ final_df = NoTable
    /\ returned = NoneReturned
    /\ output_csv = NoFile

\* python merge_datasets.py: any subset of the three files may be missing; a
\* missing file has no contents.
Init ==
    /\ pc = "start"
    /\ files \in FileStates
    /\ apiKey \in ApiKeys
    /\ deliveries_df \in (IF files.deliveries THEN SubTables(BallByBall) ELSE {NoTable})
    /\ matches_df \in (IF files.matches THEN BoundedSeq(PipelineMatchRows, MaxMatches)
                       ELSE {NoTable})
    /\ geo_df \in (IF files.geo THEN SubTables(GeoReference) ELSE {NoTable})
    /\ Untouched
    /\ lookup = NoLookup
    /\ venue_col = NoVenueCol

\* The inning aggregator on any delivery table.
InitAgg ==
    /\ pc = "loaded"
    /\ files = AllFiles
    /\ apiKey = PLACEHOLDER_KEY
    /\ deliveries_df \in BoundedSeq(DeliveryRows, MaxDeliveries)
    /\ matches_df = NoTable
    /\ geo_df = NoTable
    /\ Untouched
    /\ lookup = NoLookup
    /\ venue_col = NoVenueCol

\* The pitch features on any match table.
InitTemporal ==
    /\ pc = "loaded"
    /\ files = AllFiles
    /\ apiKey = PLACEHOLDER_KEY
    /\ deliveries_df \in SubTables(BallByBall)
    /\ matches_df \in BoundedSeq(MatchRows, MaxMatches)
    /\ geo_df = NoTable
    /\ Untouched
    /\ lookup = NoLookup
    /\ venue_col = NoVenueCol

\* One call of get_historical_weather.
InitWeather ==
    /\ pc = "call"
    /\ files = AllFiles
    /\ apiKey \in ApiKeys
    /\ deliveries_df = NoTable
    /\ matches_df = NoTable
    /\ geo_df = NoTable
    /\ Untouched
    /\ \E lat \in Coordinates, lon \in Coordinates, dt \in Timestamps :
          lookup = [NoLookup EXCEPT !.lat = lat, !.lon = lon, !.dt = dt]
    /\ venue_col = NoVenueCol

\* The venue normalizer on any venue column.
InitNorm ==
    /\ pc = "norm0"
    /\ files = AllFiles
    /\ apiKey = PLACEHOLDER_KEY
    /\ deliveries_df = NoTable
    /\ matches_df = NoTable
    /\ geo_df = NoTable
    /\ Untouched
    /\ lookup = NoLookup
    /\ venue_col \in {[NoVenueCol EXCEPT !.raw = c] : c \in BoundedSeq(VenueStrings, MaxVenueCol)}

----------------------------------------------------------------------------
(* Steps of merge_datasets and of the __main__ block *)

\* Lines 109-117.
LoadDatasets ==
    /\ pc = "start"
    /\ IF LoadSucceeds(files)
       THEN pc' = "loaded" /\ returned' = returned
       ELSE pc' = "failed" /\ returned' = NoneReturned
    /\ UNCHANGED <<files, apiKey, deliveries_df, matches_df, geo_df, inning_scores,
                   merged_df, df, unique_matches, todo, match_weather_list,
                   weather_calls, netCalls, final_df, output_csv, lookup, venue_col>>

\* Lines 121-122.
CalculateInningScores ==
    /\ pc = "loaded"
    /\ inning_scores' = InningScores(deliveries_df)
    /\ pc' = "scored"
    /\ UNCHANGED <<files, apiKey, deliveries_df, matches_df, geo_df,
                   merged_df, df, unique_matches, todo, match_weather_list,
                   weather_calls, netCalls, final_df, returned, output_csv, lookup,
                   venue_col>>

\* Lines 124-130.
MergeInningScores ==
    /\ pc = "scored"
    /\ merged_df' = MergeMatches(matches_df, inning_scores)
    /\ pc' = "merged"
    /\ UNCHANGED <<files, apiKey, deliveries_df, matches_df, geo_df, inning_scores,
                   df, unique_matches, todo, match_weather_list,
                   weather_calls, netCalls, final_df, returned, output_csv, lookup,
                   venue_col>>

\* Lines 135-139.
EngineerPitchFeatures ==
    /\ pc = "merged"
    /\ merged_df' = EngineerFeatures(merged_df)
    /\ pc' = "featured"
    /\ UNCHANGED <<files, apiKey, deliveries_df, matches_df, geo_df, inning_scores,
                   df, unique_matches, todo, match_weather_list,
                   weather_calls, netCalls, final_df, returned, output_csv, lookup,
                   venue_col>>

\* Lines 143-163.
MergeGeoData ==
    /\ pc = "featured"
    /\ merged_df' = StandardizeVenues(merged_df)
    /\ df' = LeftMergeGeo(merged_df', geo_df)
    /\ unique_matches' = UniqueMatches(df', {})
    /\ todo' = unique_matches'
    /\ match_weather_list' = <<>>
    /\ pc' = "fetching"
    /\ UNCHANGED <<files, apiKey, deliveries_df, matches_df, geo_df, inning_scores,
                   weather_calls, netCalls, final_df, returned, output_csv, lookup,
                   venue_col>>

\* Lines 166-169: one iteration of the loop.  An exception of the call leaves
\* merge_datasets and ends the program.
FetchWeather ==
    /\ pc = "fetching"
    /\ todo # <<>>
    /\ \E net \in NetOutcomes :
          LET c == WeatherFor(apiKey, Head(todo), net)
          IN  /\ weather_calls' = weather_calls \o c.calls
              /\ netCalls' = netCalls + c.requests
              /\ IF c.outcome.kind = "raise"
                 THEN /\ pc' = "crashed"
                      /\ UNCHANGED <<todo, match_weather_list>>
                 ELSE /\ pc' = "fetching"
                      /\ todo' = Tail(todo)
                      /\ match_weather_list' =
                            Append(match_weather_list,
                                   c.outcome.value @@ [id |-> Head(todo).id])
    /\ UNCHANGED <<files, apiKey, deliveries_df, matches_df, geo_df, inning_scores,
                   merged_df, df, unique_matches, final_df, returned, output_csv,
                   lookup, venue_col>>

\* Lines 172-178.  A DataFrame built from an empty list has no 'id' column,
\* and the merge of line 175 raises KeyError.
MergeWeather ==
    /\ pc = "fetching"
    /\ todo = <<>>
    /\ IF match_weather_list = <<>>
       THEN pc' = "crashed" /\ final_df' = final_df
       ELSE /\ final_df' = RemergeGeo(LeftMergeWeather(df, match_weather_list), geo_df)
            /\ pc' = "weather_merged"
    /\ UNCHANGED <<files, apiKey, deliveries_df, matches_df, geo_df, inning_scores,
                   merged_df, df, unique_matches, todo, match_weather_list,
                   weather_calls, netCalls, returned, output_csv, lookup, venue_col>>

\* Lines 183-194.
CleanAndReturn ==
    /\ pc = "weather_merged"
    /\ returned' = TableReturned(FinalClean(final_df))
    /\ pc' = "returned"
    /\ UNCHANGED <<files, apiKey, deliveries_df, matches_df, geo_df, inning_scores,
                   merged_df, df, unique_matches, todo, match_weather_list,
                   weather_calls, netCalls, final_df, output_csv, lookup, venue_col>>

\* Lines 204-208.
MainSave ==
    /\ pc \in {"returned", "failed"}
    /\ output_csv' = IF returned.none THEN output_csv
                     ELSE [written |-> TRUE, table |-> returned.table]
    /\ pc' = "exit"
    /\ UNCHANGED <<files, apiKey, deliveries_df, matches_df, geo_df, inning_scores,
                   merged_df, df, unique_matches, todo, match_weather_list,
                   weather_calls, netCalls, final_df, returned, lookup, venue_col>>

\* One call get_historical_weather(lat, lon, dt), whatever the network does.
CallWeather ==
    /\ pc = "call"
    /\ \E net \in NetOutcomes :
          LET res == GetHistoricalWeather(apiKey, lookup.lat, lookup.lon, lookup.dt, net)
          IN  /\ lookup' = [lookup EXCEPT !.net = net, !.done = TRUE,
                                          !.outcome = res.outcome,
                                          !.requests = res.requests]
              /\ netCalls' = netCalls + res.requests
    /\ pc' = "called"
    /\ UNCHANGED <<files, apiKey, deliveries_df, matches_df, geo_df, inning_scores,
                   merged_df, df, unique_matches, todo, match_weather_list,
                   weather_calls, final_df, returned, output_csv, venue_col>>

\* The normalizer applied to a raw venue column.
NormalizeOnce ==
    /\ pc = "norm0"
    /\ venue_col' = [venue_col EXCEPT !.once = NormalizeColumn(venue_col.raw)]
    /\ pc' = "norm1"
    /\ UNCHANGED <<files, apiKey, deliveries_df, matches_df, geo_df, inning_scores,
                   merged_df, df, unique_matches, todo, match_weather_list,
                   weather_calls, netCalls, final_df, returned, output_csv, lookup>>

\* The normalizer applied to its own output.
NormalizeTwice ==
    /\ pc = "norm1"
    /\ venue_col' = [venue_col EXCEPT !.twice = NormalizeColumn(venue_col.once)]
    /\ pc' = "norm2"
    /\ UNCHANGED <<files, apiKey, deliveries_df, matches_df, geo_df, inning_scores,
                   merged_df, df, unique_matches, todo, match_weather_list,
                   weather_calls, netCalls, final_df, returned, output_csv, lookup>>

----------------------------------------------------------------------------
(* Specifications *)

Next ==
    \/ LoadDatasets
    \/ CalculateInningScores
    \/ MergeInningScores
    \/ EngineerPitchFeatures
    \/ MergeGeoData
    \/ FetchWeather
    \/ MergeWeather
    \/ CleanAndReturn
    \/ MainSave

Spec == Init /\ [][Next]_vars

NextAgg == CalculateInningScores

SpecAgg == InitAgg /\ [][NextAgg]_vars

NextTemporal ==
    \/ CalculateInningScores
    \/ MergeInningScores
    \/ EngineerPitchFeatures

SpecTemporal == InitTemporal /\ [][NextTemporal]_vars

NextWeather == CallWeather

SpecWeather == InitWeather /\ [][NextWeather]_vars

NextNorm ==
    \/ NormalizeOnce
    \/ NormalizeTwice

SpecNorm == InitNorm /\ [][NextNorm]_vars


----------------------------------------------------------------------------
(* Properties *)

\* The sum of total_runs over the rows of t whose index is in S.
RECURSIVE RunsOver(_, _)
RunsOver(t, S) ==
    IF S = {} THEN 0
    ELSE LET j == CHOOSE x \in S : TRUE
         IN  t[j].total_runs + RunsOver(t, S \ {j})

DeliveriesOf(m, n) ==
    {j \in 1..Len(deliveries_df) :
        deliveries_df[j].match_id = m /\ deliveries_df[j].inning = n}

\* C1: for every (match_id, inning) pair with at least one delivery row,
\* inning_scores holds exactly one row for the pair, and its inning_score is
\* the sum of total_runs over all delivery rows of the pair, duplicate rows
\* included.
C1_SumPreservation ==
    pc = "scored" =>
        \A m \in MatchIds, n \in Innings :
            DeliveriesOf(m, n) # {} =>
                /\ Cardinality({i \in 1..Len(inning_scores) :
                                   inning_scores[i].match_id = m
                                   /\ inning_scores[i].inning = n}) = 1
                /\ \A i \in 1..Len(inning_scores) :
                      (inning_scores[i].match_id = m /\ inning_scores[i].inning = n)
                      => inning_scores[i].inning_score
                            = RunsOver(deliveries_df, DeliveriesOf(m, n))

\* A delivery table with the same six-run ball of inning (1, 1) twice and a
\* third ball elsewhere has been aggregated: inning (1, 1) scores 12.
C1_Witness ==
    /\ pc = "scored"
    /\ Len(deliveries_df) = 3
    /\ deliveries_df[1] = [match_id |-> 1, inning |-> 1, total_runs |-> 6]
    /\ deliveries_df[3] = deliveries_df[1]
    /\ deliveries_df[2].match_id = 2
    /\ \E i \in 1..Len(inning_scores) :
          inning_scores[i] = [match_id |-> 1, inning |-> 1, inning_score |-> 12]

\* The (id, inning) pairs that have a delivery and whose id is in matches_df.
ExpectedPairs ==
    {<<m, n>> \in MatchIds \X Innings :
        /\ DeliveriesOf(m, n) # {}
        /\ \E i \in 1..Len(matches_df) : matches_df[i].id = m}

\* C2: the returned table has exactly one row for each (id, inning) pair that
\* has a delivery and whose id occurs in the match table; no join duplicates a
\* pair, and the row count is at most that of inning_scores.
C2_RowPreservation ==
    pc = "returned" =>
        /\ Len(returned.table) = Len(final_df)
        /\ Len(final_df) = Cardinality(ExpectedPairs)
        /\ Len(returned.table) <= Len(inning_scores)
        /\ \A p \in ExpectedPairs :
              Cardinality({k \in 1..Len(final_df) :
                              final_df[k].id = p[1] /\ final_df[k].inning = p[2]}) = 1

\* C3: in the table sorted by (venue, date), the row of the k-th match at
\* venue V in season S has Matches This Season = k, also when a match
\* contributes two inning rows.
C3_MatchesThisSeasonCountsMatches ==
    pc = "featured" =>
        \A i \in 1..Len(merged_df) :
            merged_df[i].Matches_This_Season =
                Cardinality({merged_df[j].id : j \in
                    {x \in 1..i : /\ merged_df[x].season = merged_df[i].season
                                  /\ merged_df[x].venue = merged_df[i].venue}})

\* The rows before row i that belong to its venue group.
EarlierAtVenue(i) == {j \in 1..(i - 1) : merged_df[j].venue = merged_df[i].venue}

PreviousAtVenue(i) == CHOOSE j \in EarlierAtVenue(i) : \A k \in EarlierAtVenue(i) : k <= j

\* C4: after the feature step the rows are sorted by (venue, date); the first
\* row of a venue group has Days Since Last Match = 365, every other row has
\* the days between its date and the date of the preceding row of its group,
\* and the value is never negative.
C4_DaysSinceLastMatch ==
    pc = "featured" =>
        /\ \A i, j \in 1..Len(merged_df) :
              i < j => \/ VenueRank(merged_df[i].venue) < VenueRank(merged_df[j].venue)
                       \/ /\ merged_df[i].venue = merged_df[j].venue
                          /\ merged_df[i].date <= merged_df[j].date
        /\ \A i \in 1..Len(merged_df) :
              /\ merged_df[i].Days_Since_Last_Match >= 0
              /\ IF EarlierAtVenue(i) = {}
                 THEN merged_df[i].Days_Since_Last_Match = 365
                 ELSE merged_df[i].Days_Since_Last_Match
                         = merged_df[i].date - merged_df[PreviousAtVenue(i)].date

\* Matches on 2020-01-01 and 2020-01-11 (written 11/01/2020) at one venue,
\* listed latest first, one inning each: the feature table holds the earlier
\* one first with 365 and the later one second with 10.
C4_Witness ==
    /\ pc = "featured"
    /\ matches_df = << [id |-> 1, date |-> Dmy(11, 1, 2020), season |-> 2020,
                        venue |-> "Eden Gardens"],
                       [id |-> 2, date |-> Iso(2020, 1, 1), season |-> 2020,
                        venue |-> "Eden Gardens"] >>
    /\ Len(merged_df) = 2
    /\ merged_df[1].id = 2
    /\ merged_df[1].Days_Since_Last_Match = 365
    /\ merged_df[2].id = 1
    /\ merged_df[2].Days_Since_Last_Match = 10

\* C5: normalizing twice equals normalizing once; a string that is no key of
\* the table is returned unchanged; every value of the table is a fixed point.
C5_NormalizerIdempotent ==
    pc = "norm2" =>
        /\ venue_col.twice = venue_col.once
        /\ \A i \in 1..Len(venue_col.raw) :
              /\ venue_col.raw[i] \notin VenueKeys => venue_col.once[i] = venue_col.raw[i]
              /\ venue_col.raw[i] \in VenueValues => venue_col.once[i] = venue_col.raw[i]

\* A column of a variant name and an unknown name has been normalized twice.
C5_Witness ==
    /\ pc = "norm2"
    /\ venue_col.raw = <<"M. Chinnaswamy Stadium, Bengaluru", "Newlands">>
    /\ venue_col.once = <<"M Chinnaswamy Stadium", "Newlands">>
    /\ venue_col.twice = <<"M Chinnaswamy Stadium", "Newlands">>

SomeFileMissing == ~files.deliveries \/ ~files.matches \/ ~files.geo

\* C6: when one of the three input files is missing, merge_datasets returns
\* None, none of the later steps runs, and no output file is written.
C6_MissingInputWritesNothing ==
    SomeFileMissing =>
        /\ pc \in {"start", "failed", "exit"}
        /\ returned = NoneReturned
        /\ ~output_csv.written
        /\ inning_scores = NoTable /\ merged_df = NoTable /\ df = NoTable
        /\ final_df = NoTable /\ weather_calls = <<>> /\ netCalls = 0

\* The program has ended after a run in which only the workbook was missing.
C6_Witness ==
    /\ pc = "exit"
    /\ files.deliveries /\ files.matches /\ ~files.geo
    /\ deliveries_df # NoTable /\ matches_df # NoTable
    /\ returned.none
    /\ ~output_csv.written

\* 31.5, 45, 15, 12.5
FixedRecord ==
    [match_temp |-> [nan |-> FALSE, num |-> 63, den |-> 2],
     match_humidity |-> [nan |-> FALSE, num |-> 45, den |-> 1],
     match_wind_speed |-> [nan |-> FALSE, num |-> 15, den |-> 1],
     match_dew_point |-> [nan |-> FALSE, num |-> 25, den |-> 2]]

AllNullRecord ==
    [match_temp |-> NaN, match_humidity |-> NaN, match_wind_speed |-> NaN,
     match_dew_point |-> NaN]

\* C7: with the placeholder key every call returns exactly
\* {31.5, 45, 15, 12.5}, whatever the coordinates and the timestamp, and
\* sends no request.
C7_PlaceholderReturnsFixedRecord ==
    (lookup.done /\ apiKey = PLACEHOLDER_KEY) =>
        /\ lookup.outcome.kind = "return"
        /\ lookup.outcome.value = FixedRecord
        /\ lookup.requests = 0
        /\ netCalls = 0

\* A call with the placeholder key and no latitude has returned the record.
C7_Witness ==
    /\ lookup.done
    /\ apiKey = PLACEHOLDER_KEY
    /\ IsNaN(lookup.lat) /\ ~IsNaN(lookup.lon)
    /\ lookup.outcome.value = FixedRecord

\* The outcomes of the network call the claim lists: every one but a body
\* whose 'hourly' is a list that starts with a dict.
FailedOutcome(net) ==
    ~(net.status = "ok" /\ net.data = "dict" /\ net.hourly = "list"
      /\ net.first \in {"dict_full", "dict_partial"})

\* C8: for every failed outcome of the network call the lookup returns the
\* fixed record or the all-null record, and raises nothing.
C8_LookupNeverRaises ==
    (lookup.done /\ apiKey # PLACEHOLDER_KEY /\ FailedOutcome(lookup.net)) =>
        /\ lookup.outcome.kind = "return"
        /\ lookup.outcome.value \in {FixedRecord, AllNullRecord}

\* The matches of unique_matches that have no coordinates.
WithoutCoordinates ==
    {i \in 1..Len(unique_matches) :
        IsNaN(unique_matches[i].Latitude) \/ IsNaN(unique_matches[i].Longitude)}

WeatherOf(r) == [c \in WeatherColumns |-> r[c]]

\* C9 as claimed: a match without coordinates is not looked up, and its rows
\* carry the all-null record before imputation.
C9_NullCoordinatesSkipped ==
    pc = "weather_merged" =>
        \A i \in WithoutCoordinates :
            /\ \A k \in 1..Len(weather_calls) : weather_calls[k].id # unique_matches[i].id
            /\ \A k \in 1..Len(final_df) :
                  final_df[k].id = unique_matches[i].id
                  => WeatherOf(final_df[k]) = AllNullRecord

\* C9 as amended: a match without coordinates is looked up like any other,
\* once and with its null coordinates; its rows carry the record that call
\* returned, which is the fixed record when the key is the placeholder.
C9_NullCoordinatesLookedUp ==
    pc = "weather_merged" =>
        \A i \in WithoutCoordinates :
            LET calls == {k \in 1..Len(weather_calls) :
                             weather_calls[k].id = unique_matches[i].id}
            IN  /\ Cardinality(calls) = 1
                /\ \A k \in calls :
                      /\ weather_calls[k].lat = unique_matches[i].Latitude
                      /\ weather_calls[k].lon = unique_matches[i].Longitude
                      /\ weather_calls[k].outcome.kind = "return"
                      /\ \A j \in 1..Len(final_df) :
                            final_df[j].id = unique_matches[i].id
                            => /\ WeatherOf(final_df[j]) = weather_calls[k].outcome.value
                               /\ apiKey = PLACEHOLDER_KEY
                                  => WeatherOf(final_df[j]) = FixedRecord

\* With the placeholder key, a match that found no geo record has been looked
\* up and its row carries 31.5 before imputation.
C9_Witness ==
    /\ pc = "weather_merged"
    /\ apiKey = PLACEHOLDER_KEY
    /\ geo_df = <<>>
    /\ \E i \in WithoutCoordinates :
          /\ \E k \in 1..Len(weather_calls) :
                weather_calls[k].id = unique_matches[i].id /\ IsNaN(weather_calls[k].lat)
          /\ \E j \in 1..Len(final_df) :
                /\ final_df[j].id = unique_matches[i].id
                /\ final_df[j].match_temp = [nan |-> FALSE, num |-> 63, den |-> 2]

\* C10: in the returned table no numeric column holds a null; a value that
\* was present is unchanged and a missing one is the mean of the column's
\* present values.
C10_NoNumericNulls ==
    pc = "returned" =>
        \A k \in 1..Len(returned.table), c \in NumericColumns :
            /\ ~IsNaN(returned.table[k][c])
            /\ ~IsNaN(CellOf(final_df[k], c))
               => returned.table[k][c] = CellOf(final_df[k], c)
            /\ IsNaN(CellOf(final_df[k], c))
               => returned.table[k][c] = ColumnMean(final_df, c)


====
